---- MODULE Spec2Model ----
(***************************************************************************)
(* The hotel safe of src/src/safe.ts: class SafeImpl, a state machine      *)
(* driven by enter(button) and observed through readDisplay() and          *)
(* isLocked().  Strings are sequences of one-character strings, so that    *)
(* length, concatenation, padEnd and substring are computed as the code    *)
(* computes them.                                                          *)
(***************************************************************************)
EXTENDS Integers, Sequences, FiniteSets

(***************************************************************************)
(* The state: the six private fields of one SafeImpl, and the button of    *)
(* the last enter() call (empty before the first call).                    *)
(***************************************************************************)
VARIABLES locked, display, currentPin, state, enteredDigits, newPinBuffer, pressed,
          testSafe

(* enum Button: the numeric values TypeScript gives the members *)
D0 == 0
D1 == 1
D2 == 2
D3 == 3
D4 == 4
D5 == 5
D6 == 6
D7 == 7
D8 == 8
D9 == 9
LOCK == 10
KEY == 11
PIN == 12

Button == {D0, D1, D2, D3, D4, D5, D6, D7, D8, D9, LOCK, KEY, PIN}

(* enum SafeState *)
LOCKED_IDLE == "LOCKED_IDLE"
LOCKED_ERROR == "LOCKED_ERROR"
ENTERING_PIN == "ENTERING_PIN"
UNLOCKED == "UNLOCKED"
SETTING_NEW_PIN == "SETTING_NEW_PIN"

SafeState == {LOCKED_IDLE, LOCKED_ERROR, ENTERING_PIN, UNLOCKED, SETTING_NEW_PIN}

(* the string literals of the class *)
BLANK == <<" ", " ", " ", " ", " ", " ">>
ERROR == <<"E", "R", "R", "O", "R", " ">>
OPEN == <<"O", "P", "E", "N", " ", " ">>
CLOSED == <<"C", "L", "O", "S", "E", "D">>
CODE == <<"C", "O", "D", "E", " ", " ">>
DEFAULT_PIN == <<"1", "2", "3", "4", "5", "6">>

(***************************************************************************)
(* String helpers of the JavaScript runtime, as the class uses them.       *)
(***************************************************************************)
DecimalChar == <<"0", "1", "2", "3", "4", "5", "6", "7", "8", "9">>

(* Number.prototype.toString() of a non-negative integer: its decimal digits *)
RECURSIVE toString(_)
toString(n) ==
    IF n < 10 THEN <<DecimalChar[n + 1]>>
    ELSE toString(n \div 10) \o <<DecimalChar[(n % 10) + 1]>>

(* String.prototype.padEnd(targetLength, padString) with a one-character pad *)
padEnd(s, targetLength, padString) ==
    IF Len(s) >= targetLength THEN s
    ELSE s \o [i \in 1..(targetLength - Len(s)) |-> padString]

(* String.prototype.substring(0, end) *)
substring(s, end) ==
    IF Len(s) <= end THEN s ELSE SubSeq(s, 1, end)

(***************************************************************************)
(* The private helpers of SafeImpl.                                        *)
(***************************************************************************)
isDigitButton(button) == button >= D0 /\ button <= D9

(* as buttonToDigit, but the digit is taken as if the enum began at D1 *)
buttonToDigit_CountsFromOne(button) ==
    IF button >= D0 /\ button <= D9 THEN toString((button + 1) % 10) ELSE <<>>


buttonToDigit(button) ==
    IF button >= D0 /\ button <= D9 THEN toString(button) ELSE <<>>

(***************************************************************************)
(* The handlers, as functions from the object before the call (s) and the  *)
(* button to the object after the call.                                    *)
(***************************************************************************)
(* as handleLockedIdle, but LOCK shows "CLOSED" again *)
handleLockedIdle_LockShowsClosed(s, button) ==
    IF button = KEY
    THEN [s EXCEPT !.state = ENTERING_PIN, !.enteredDigits = <<>>, !.display = BLANK]
    ELSE IF button = LOCK
    THEN [s EXCEPT !.display = CLOSED]
    ELSE IF isDigitButton(button)
    THEN [s EXCEPT !.state = LOCKED_ERROR, !.display = ERROR]
    ELSE s

(* as handleLockedIdle, but PIN starts a PIN change although the safe is locked *)
handleLockedIdle_PinStartsChange(s, button) ==
    IF button = KEY
    THEN [s EXCEPT !.state = ENTERING_PIN, !.enteredDigits = <<>>, !.display = BLANK]
    ELSE IF button = LOCK
    THEN s
    ELSE IF isDigitButton(button)
    THEN [s EXCEPT !.state = LOCKED_ERROR, !.display = ERROR]
    ELSE IF button = PIN
    THEN [s EXCEPT !.state = SETTING_NEW_PIN, !.newPinBuffer = <<>>, !.display = BLANK]
    ELSE s

(* as handleLockedIdle, but a digit pressed without KEY is ignored *)
handleLockedIdle_DigitIgnored(s, button) ==
    IF button = KEY
    THEN [s EXCEPT !.state = ENTERING_PIN, !.enteredDigits = <<>>, !.display = BLANK]
    ELSE s

handleLockedIdle(s, button) ==
    IF button = KEY
    THEN [s EXCEPT !.state = ENTERING_PIN, !.enteredDigits = <<>>, !.display = BLANK]
    ELSE IF button = LOCK
    THEN s
    ELSE IF isDigitButton(button)
    THEN [s EXCEPT !.state = LOCKED_ERROR, !.display = ERROR]
    ELSE s

(* as handleLockedError, but KEY does not leave the error state either *)
handleLockedError_NoWayOut(s, button) ==
    [s EXCEPT !.display = ERROR]

(* as handleLockedError, but KEY leaves "ERROR " on the display *)
handleLockedError_KeyKeepsDisplay(s, button) ==
    IF button = KEY
    THEN [s EXCEPT !.state = ENTERING_PIN, !.enteredDigits = <<>>]
    ELSE [s EXCEPT !.display = ERROR]

(* as handleLockedError, but LOCK leaves the error state *)
handleLockedError_LockClears(s, button) ==
    IF button = KEY
    THEN [s EXCEPT !.state = ENTERING_PIN, !.enteredDigits = <<>>, !.display = BLANK]
    ELSE IF button = LOCK
    THEN [s EXCEPT !.state = LOCKED_IDLE, !.display = CLOSED]
    ELSE [s EXCEPT !.display = ERROR]

handleLockedError(s, button) ==
    IF button = KEY
    THEN [s EXCEPT !.state = ENTERING_PIN, !.enteredDigits = <<>>, !.display = BLANK]
    ELSE [s EXCEPT !.display = ERROR]

(* as handleEnteringPin, but the display is set before the digit is appended *)
handleEnteringPin_DisplayLags(s, button) ==
    IF isDigitButton(button)
    THEN LET digit == buttonToDigit(button)
             s1 == [s EXCEPT !.display = padEnd(s.enteredDigits, 6, " ")]
             s2 == [s1 EXCEPT !.enteredDigits = @ \o digit]
         IN  IF Len(s2.enteredDigits) = 6
             THEN LET s3 == IF s2.enteredDigits = s2.currentPin
                            THEN [s2 EXCEPT !.locked = FALSE, !.display = OPEN,
                                            !.state = UNLOCKED]
                            ELSE [s2 EXCEPT !.display = BLANK, !.state = LOCKED_IDLE]
                  IN  [s3 EXCEPT !.enteredDigits = <<>>]
             ELSE s2
    ELSE IF button = KEY
    THEN [s EXCEPT !.enteredDigits = <<>>, !.display = BLANK]
    ELSE s

(* as handleEnteringPin, but KEY does not reset the entry *)
handleEnteringPin_KeyIgnored(s, button) ==
    IF isDigitButton(button)
    THEN LET digit == buttonToDigit(button)
             s1 == [s EXCEPT !.enteredDigits = @ \o digit]
             s2 == [s1 EXCEPT !.display = padEnd(s1.enteredDigits, 6, " ")]
         IN  IF Len(s2.enteredDigits) = 6
             THEN LET s3 == IF s2.enteredDigits = s2.currentPin
                            THEN [s2 EXCEPT !.locked = FALSE, !.display = OPEN,
                                            !.state = UNLOCKED]
                            ELSE [s2 EXCEPT !.display = BLANK, !.state = LOCKED_IDLE]
                  IN  [s3 EXCEPT !.enteredDigits = <<>>]
             ELSE s2
    ELSE s

(* as handleEnteringPin, but an entry is rejected at its first wrong digit *)
handleEnteringPin_EarlyReject(s, button) ==
    IF isDigitButton(button)
    THEN LET digit == buttonToDigit(button)
             s1 == [s EXCEPT !.enteredDigits = @ \o digit]
             s2 == [s1 EXCEPT !.display = padEnd(s1.enteredDigits, 6, " ")]
         IN  IF s2.enteredDigits # SubSeq(s2.currentPin, 1, Len(s2.enteredDigits))
             THEN [s2 EXCEPT !.display = BLANK, !.state = LOCKED_IDLE,
                             !.enteredDigits = <<>>]
             ELSE IF Len(s2.enteredDigits) = 6
             THEN [s2 EXCEPT !.locked = FALSE, !.display = OPEN,
                             !.state = UNLOCKED, !.enteredDigits = <<>>]
             ELSE s2
    ELSE IF button = KEY
    THEN [s EXCEPT !.enteredDigits = <<>>, !.display = BLANK]
    ELSE s

(* as handleEnteringPin, but KEY abandons the entry and returns to LOCKED_IDLE *)
handleEnteringPin_KeyAborts(s, button) ==
    IF isDigitButton(button)
    THEN LET digit == buttonToDigit(button)
             s1 == [s EXCEPT !.enteredDigits = @ \o digit]
             s2 == [s1 EXCEPT !.display = padEnd(s1.enteredDigits, 6, " ")]
         IN  IF Len(s2.enteredDigits) = 6
             THEN LET s3 == IF s2.enteredDigits = s2.currentPin
                            THEN [s2 EXCEPT !.locked = FALSE, !.display = OPEN,
                                            !.state = UNLOCKED]
                            ELSE [s2 EXCEPT !.display = BLANK, !.state = LOCKED_IDLE]
                  IN  [s3 EXCEPT !.enteredDigits = <<>>]
             ELSE s2
    ELSE IF button = KEY
    THEN [s EXCEPT !.enteredDigits = <<>>, !.display = BLANK, !.state = LOCKED_IDLE]
    ELSE s

(* as handleEnteringPin, but LOCK abandons the entry *)
handleEnteringPin_LockAborts(s, button) ==
    IF isDigitButton(button)
    THEN LET digit == buttonToDigit(button)
             s1 == [s EXCEPT !.enteredDigits = @ \o digit]
             s2 == [s1 EXCEPT !.display = padEnd(s1.enteredDigits, 6, " ")]
         IN  IF Len(s2.enteredDigits) = 6
             THEN LET s3 == IF s2.enteredDigits = s2.currentPin
                            THEN [s2 EXCEPT !.locked = FALSE, !.display = OPEN,
                                            !.state = UNLOCKED]
                            ELSE [s2 EXCEPT !.display = BLANK, !.state = LOCKED_IDLE]
                  IN  [s3 EXCEPT !.enteredDigits = <<>>]
             ELSE s2
    ELSE IF button = KEY
    THEN [s EXCEPT !.enteredDigits = <<>>, !.display = BLANK]
    ELSE IF button = LOCK
    THEN [s EXCEPT !.enteredDigits = <<>>, !.display = CLOSED, !.state = LOCKED_IDLE]
    ELSE s

(* as handleEnteringPin, but with a debounce: a digit button that is also the
   button of the previous call is taken for a bounce and dropped *)
handleEnteringPin_Debounce(s, button) ==
    IF isDigitButton(button) /\ pressed = {button}
    THEN s
    ELSE IF isDigitButton(button)
    THEN LET digit == buttonToDigit(button)
             s1 == [s EXCEPT !.enteredDigits = @ \o digit]
             s2 == [s1 EXCEPT !.display = padEnd(s1.enteredDigits, 6, " ")]
         IN  IF Len(s2.enteredDigits) = 6
             THEN LET s3 == IF s2.enteredDigits = s2.currentPin
                            THEN [s2 EXCEPT !.locked = FALSE, !.display = OPEN,
                                            !.state = UNLOCKED]
                            ELSE [s2 EXCEPT !.display = BLANK, !.state = LOCKED_IDLE]
                  IN  [s3 EXCEPT !.enteredDigits = <<>>]
             ELSE s2
    ELSE IF button = KEY
    THEN [s EXCEPT !.enteredDigits = <<>>, !.display = BLANK]
    ELSE s

(* as handleEnteringPin, but the buffer is not emptied after the 6th digit *)
handleEnteringPin_KeepsBuffer(s, button) ==
    IF isDigitButton(button)
    THEN LET digit == buttonToDigit(button)
             s1 == [s EXCEPT !.enteredDigits = @ \o digit]
             s2 == [s1 EXCEPT !.display = padEnd(s1.enteredDigits, 6, " ")]
         IN  IF Len(s2.enteredDigits) = 6
             THEN LET s3 == IF s2.enteredDigits = s2.currentPin
                            THEN [s2 EXCEPT !.locked = FALSE, !.display = OPEN,
                                            !.state = UNLOCKED]
                            ELSE [s2 EXCEPT !.display = BLANK, !.state = LOCKED_IDLE]
                  IN  s3
             ELSE s2
    ELSE IF button = KEY
    THEN [s EXCEPT !.enteredDigits = <<>>, !.display = BLANK]
    ELSE s

(* as handleEnteringPin, but only the first 5 digits are compared *)
handleEnteringPin_PrefixMatch(s, button) ==
    IF isDigitButton(button)
    THEN LET digit == buttonToDigit(button)
             s1 == [s EXCEPT !.enteredDigits = @ \o digit]
             s2 == [s1 EXCEPT !.display = padEnd(s1.enteredDigits, 6, " ")]
         IN  IF Len(s2.enteredDigits) = 6
             THEN LET s3 == IF SubSeq(s2.enteredDigits, 1, 5) = SubSeq(s2.currentPin, 1, 5)
                            THEN [s2 EXCEPT !.locked = FALSE, !.display = OPEN,
                                            !.state = UNLOCKED]
                            ELSE [s2 EXCEPT !.display = BLANK, !.state = LOCKED_IDLE]
                  IN  [s3 EXCEPT !.enteredDigits = <<>>]
             ELSE s2
    ELSE IF button = KEY
    THEN [s EXCEPT !.enteredDigits = <<>>, !.display = BLANK]
    ELSE s

(* as handleEnteringPin, but the entry is compared with the factory default *)
handleEnteringPin_DefaultPin(s, button) ==
    IF isDigitButton(button)
    THEN LET digit == buttonToDigit(button)
             s1 == [s EXCEPT !.enteredDigits = @ \o digit]
             s2 == [s1 EXCEPT !.display = padEnd(s1.enteredDigits, 6, " ")]
         IN  IF Len(s2.enteredDigits) = 6
             THEN LET s3 == IF s2.enteredDigits = DEFAULT_PIN
                            THEN [s2 EXCEPT !.locked = FALSE, !.display = OPEN,
                                            !.state = UNLOCKED]
                            ELSE [s2 EXCEPT !.display = BLANK, !.state = LOCKED_IDLE]
                  IN  [s3 EXCEPT !.enteredDigits = <<>>]
             ELSE s2
    ELSE IF button = KEY
    THEN [s EXCEPT !.enteredDigits = <<>>, !.display = BLANK]
    ELSE s

handleEnteringPin(s, button) ==
    IF isDigitButton(button)
    THEN LET digit == buttonToDigit(button)
             s1 == [s EXCEPT !.enteredDigits = @ \o digit]
             s2 == [s1 EXCEPT !.display = padEnd(s1.enteredDigits, 6, " ")]
         IN  IF Len(s2.enteredDigits) = 6
             THEN LET s3 == IF s2.enteredDigits = s2.currentPin
                            THEN [s2 EXCEPT !.locked = FALSE, !.display = OPEN,
                                            !.state = UNLOCKED]
                            ELSE [s2 EXCEPT !.display = BLANK, !.state = LOCKED_IDLE]
                  IN  [s3 EXCEPT !.enteredDigits = <<>>]
             ELSE s2
    ELSE IF button = KEY
    THEN [s EXCEPT !.enteredDigits = <<>>, !.display = BLANK]
    ELSE s

(* as handleUnlocked, but PIN leaves the display as it was *)
handleUnlocked_PinKeepsDisplay(s, button) ==
    IF button = LOCK
    THEN [s EXCEPT !.locked = TRUE, !.display = CLOSED, !.state = LOCKED_IDLE]
    ELSE IF button = PIN
    THEN [s EXCEPT !.state = SETTING_NEW_PIN, !.newPinBuffer = <<>>]
    ELSE s

(* as handleUnlocked, but KEY starts a PIN entry *)
handleUnlocked_KeyStartsEntry(s, button) ==
    IF button = LOCK
    THEN [s EXCEPT !.locked = TRUE, !.display = CLOSED, !.state = LOCKED_IDLE]
    ELSE IF button = PIN
    THEN [s EXCEPT !.state = SETTING_NEW_PIN, !.newPinBuffer = <<>>, !.display = BLANK]
    ELSE IF button = KEY
    THEN [s EXCEPT !.state = ENTERING_PIN, !.enteredDigits = <<>>, !.display = BLANK]
    ELSE s

(* as handleUnlocked, but LOCK does not set the locked flag *)
handleUnlocked_NoRelock(s, button) ==
    IF button = LOCK
    THEN [s EXCEPT !.display = CLOSED, !.state = LOCKED_IDLE]
    ELSE IF button = PIN
    THEN [s EXCEPT !.state = SETTING_NEW_PIN, !.newPinBuffer = <<>>, !.display = BLANK]
    ELSE s

(* as handleUnlocked, but LOCK leaves the display as it was *)
handleUnlocked_LockKeepsDisplay(s, button) ==
    IF button = LOCK
    THEN [s EXCEPT !.locked = TRUE, !.state = LOCKED_IDLE]
    ELSE IF button = PIN
    THEN [s EXCEPT !.state = SETTING_NEW_PIN, !.newPinBuffer = <<>>, !.display = BLANK]
    ELSE s

handleUnlocked(s, button) ==
    IF button = LOCK
    THEN [s EXCEPT !.locked = TRUE, !.display = CLOSED, !.state = LOCKED_IDLE]
    ELSE IF button = PIN
    THEN [s EXCEPT !.state = SETTING_NEW_PIN, !.newPinBuffer = <<>>, !.display = BLANK]
    ELSE s

(* as handleSettingNewPin, but KEY cancels the change and returns to UNLOCKED *)
handleSettingNewPin_KeyCancels(s, button) ==
    IF isDigitButton(button)
    THEN LET digit == buttonToDigit(button)
             s1 == [s EXCEPT !.newPinBuffer = @ \o digit]
             s2 == [s1 EXCEPT !.display = padEnd(s1.newPinBuffer, 6, " ")]
         IN  IF Len(s2.newPinBuffer) > 6
             THEN [s2 EXCEPT !.newPinBuffer = substring(s2.newPinBuffer, 6)]
             ELSE s2
    ELSE IF button = PIN /\ Len(s.newPinBuffer) = 6
    THEN [s EXCEPT !.currentPin = s.newPinBuffer, !.display = CODE,
                   !.state = UNLOCKED, !.newPinBuffer = <<>>]
    ELSE IF button = KEY
    THEN [s EXCEPT !.display = OPEN, !.state = UNLOCKED, !.newPinBuffer = <<>>]
    ELSE s

(* as handleSettingNewPin, but the buffer is not cut back to 6 characters *)
handleSettingNewPin_NoTruncate(s, button) ==
    IF isDigitButton(button)
    THEN LET digit == buttonToDigit(button)
             s1 == [s EXCEPT !.newPinBuffer = @ \o digit]
             s2 == [s1 EXCEPT !.display = padEnd(s1.newPinBuffer, 6, " ")]
         IN  s2
    ELSE IF button = PIN /\ Len(s.newPinBuffer) = 6
    THEN [s EXCEPT !.currentPin = s.newPinBuffer, !.display = CODE,
                   !.state = UNLOCKED, !.newPinBuffer = <<>>]
    ELSE s

(* as handleSettingNewPin, but PIN confirms a buffer of any length *)
handleSettingNewPin_CommitsAnyLength(s, button) ==
    IF isDigitButton(button)
    THEN LET digit == buttonToDigit(button)
             s1 == [s EXCEPT !.newPinBuffer = @ \o digit]
             s2 == [s1 EXCEPT !.display = padEnd(s1.newPinBuffer, 6, " ")]
         IN  IF Len(s2.newPinBuffer) > 6
             THEN [s2 EXCEPT !.newPinBuffer = substring(s2.newPinBuffer, 6)]
             ELSE s2
    ELSE IF button = PIN
    THEN [s EXCEPT !.currentPin = s.newPinBuffer, !.display = CODE,
                   !.state = UNLOCKED, !.newPinBuffer = <<>>]
    ELSE s

(* as handleSettingNewPin, but the last 6 characters are kept, not the first *)
handleSettingNewPin_KeepsLastSix(s, button) ==
    IF isDigitButton(button)
    THEN LET digit == buttonToDigit(button)
             s1 == [s EXCEPT !.newPinBuffer = @ \o digit]
             s2 == [s1 EXCEPT !.display = padEnd(s1.newPinBuffer, 6, " ")]
         IN  IF Len(s2.newPinBuffer) > 6
             THEN [s2 EXCEPT !.newPinBuffer =
                                 SubSeq(s2.newPinBuffer, Len(s2.newPinBuffer) - 5,
                                        Len(s2.newPinBuffer))]
             ELSE s2
    ELSE IF button = PIN /\ Len(s.newPinBuffer) = 6
    THEN [s EXCEPT !.currentPin = s.newPinBuffer, !.display = CODE,
                   !.state = UNLOCKED, !.newPinBuffer = <<>>]
    ELSE s

(* as handleSettingNewPin, but PIN on an incomplete buffer restarts the entry *)
handleSettingNewPin_PinRestarts(s, button) ==
    IF isDigitButton(button)
    THEN LET digit == buttonToDigit(button)
             s1 == [s EXCEPT !.newPinBuffer = @ \o digit]
             s2 == [s1 EXCEPT !.display = padEnd(s1.newPinBuffer, 6, " ")]
         IN  IF Len(s2.newPinBuffer) > 6
             THEN [s2 EXCEPT !.newPinBuffer = substring(s2.newPinBuffer, 6)]
             ELSE s2
    ELSE IF button = PIN /\ Len(s.newPinBuffer) = 6
    THEN [s EXCEPT !.currentPin = s.newPinBuffer, !.display = CODE,
                   !.state = UNLOCKED, !.newPinBuffer = <<>>]
    ELSE IF button = PIN
    THEN [s EXCEPT !.newPinBuffer = <<>>, !.display = BLANK]
    ELSE s

(* as handleSettingNewPin, but LOCK locks the safe and drops the change *)
handleSettingNewPin_LockLocks(s, button) ==
    IF isDigitButton(button)
    THEN LET digit == buttonToDigit(button)
             s1 == [s EXCEPT !.newPinBuffer = @ \o digit]
             s2 == [s1 EXCEPT !.display = padEnd(s1.newPinBuffer, 6, " ")]
         IN  IF Len(s2.newPinBuffer) > 6
             THEN [s2 EXCEPT !.newPinBuffer = substring(s2.newPinBuffer, 6)]
             ELSE s2
    ELSE IF button = PIN /\ Len(s.newPinBuffer) = 6
    THEN [s EXCEPT !.currentPin = s.newPinBuffer, !.display = CODE,
                   !.state = UNLOCKED, !.newPinBuffer = <<>>]
    ELSE IF button = LOCK
    THEN [s EXCEPT !.locked = TRUE, !.display = CLOSED, !.state = LOCKED_IDLE,
                   !.newPinBuffer = <<>>]
    ELSE s

(* as handleSettingNewPin, but the confirmed buffer is not stored *)
handleSettingNewPin_NoCommit(s, button) ==
    IF isDigitButton(button)
    THEN LET digit == buttonToDigit(button)
             s1 == [s EXCEPT !.newPinBuffer = @ \o digit]
             s2 == [s1 EXCEPT !.display = padEnd(s1.newPinBuffer, 6, " ")]
         IN  IF Len(s2.newPinBuffer) > 6
             THEN [s2 EXCEPT !.newPinBuffer = substring(s2.newPinBuffer, 6)]
             ELSE s2
    ELSE IF button = PIN /\ Len(s.newPinBuffer) = 6
    THEN [s EXCEPT !.display = CODE, !.state = UNLOCKED, !.newPinBuffer = <<>>]
    ELSE s

(* as handleSettingNewPin, but the buffer is not emptied on confirmation *)
handleSettingNewPin_KeepsBuffer(s, button) ==
    IF isDigitButton(button)
    THEN LET digit == buttonToDigit(button)
             s1 == [s EXCEPT !.newPinBuffer = @ \o digit]
             s2 == [s1 EXCEPT !.display = padEnd(s1.newPinBuffer, 6, " ")]
         IN  IF Len(s2.newPinBuffer) > 6
             THEN [s2 EXCEPT !.newPinBuffer = substring(s2.newPinBuffer, 6)]
             ELSE s2
    ELSE IF button = PIN /\ Len(s.newPinBuffer) = 6
    THEN [s EXCEPT !.currentPin = s.newPinBuffer, !.display = CODE,
                   !.state = UNLOCKED]
    ELSE s

handleSettingNewPin(s, button) ==
    IF isDigitButton(button)
    THEN LET digit == buttonToDigit(button)
             s1 == [s EXCEPT !.newPinBuffer = @ \o digit]
             s2 == [s1 EXCEPT !.display = padEnd(s1.newPinBuffer, 6, " ")]
         IN  IF Len(s2.newPinBuffer) > 6
             THEN [s2 EXCEPT !.newPinBuffer = substring(s2.newPinBuffer, 6)]
             ELSE s2
    ELSE IF button = PIN /\ Len(s.newPinBuffer) = 6
    THEN [s EXCEPT !.currentPin = s.newPinBuffer, !.display = CODE,
                   !.state = UNLOCKED, !.newPinBuffer = <<>>]
    ELSE s

(* SafeImpl.enter: the switch on this.state *)
enterOn(s, button) ==
    CASE s.state = LOCKED_IDLE -> handleLockedIdle(s, button)
      [] s.state = LOCKED_ERROR -> handleLockedError(s, button)
      [] s.state = ENTERING_PIN -> handleEnteringPin(s, button)
      [] s.state = UNLOCKED -> handleUnlocked(s, button)
      [] s.state = SETTING_NEW_PIN -> handleSettingNewPin(s, button)

readDisplay(s) == s.display

isLocked(s) == s.locked

(* a sequence of enter() calls, first to last *)
RECURSIVE enterAll(_, _)
enterAll(s, buttons) ==
    IF buttons = <<>> THEN s
    ELSE enterAll(enterOn(s, Head(buttons)), Tail(buttons))

vars ==
    <<locked, display, currentPin, state, enteredDigits, newPinBuffer, pressed,
      testSafe>>

this ==
    [locked |-> locked, display |-> display, currentPin |-> currentPin,
     state |-> state, enteredDigits |-> enteredDigits, newPinBuffer |-> newPinBuffer]

(* a second object, new SafeImpl(), with the field initialisers *)
SafeImpl ==
    [locked |-> TRUE, display |-> BLANK, currentPin |-> DEFAULT_PIN,
     state |-> LOCKED_IDLE, enteredDigits |-> <<>>, newPinBuffer |-> <<>>]

(* as Init, but the display starts at "CLOSED" *)
Init_ShowsClosed ==
    /\ locked = TRUE
    /\ display = CLOSED
    /\ currentPin = DEFAULT_PIN
    /\ state = LOCKED_IDLE
    /\ enteredDigits = <<>>
    /\ newPinBuffer = <<>>
    /\ pressed = {}
    /\ testSafe = SafeImpl

(* new SafeImpl(): the field initialisers *)
Init ==
    /\ locked = TRUE
    /\ display = BLANK
    /\ currentPin = DEFAULT_PIN
    /\ state = LOCKED_IDLE
    /\ enteredDigits = <<>>
    /\ newPinBuffer = <<>>
    /\ pressed = {}
    /\ testSafe = SafeImpl

(***************************************************************************)
(* The buttons the model presses.  enter() takes any button in any state;   *)
(* the model bounds the digits pressed during an entry: at the k-th        *)
(* position the user presses the k-th digit of one of the first NumCodes   *)
(* code words, in any mixture.  The code words are the eight 6-digit       *)
(* entries of the test suite, then the repeated digits 1..8, so that with  *)
(* all of them in use every digit button is pressed at every position.     *)
(***************************************************************************)
NumCodes == 2

CodeWords ==
    << <<D1, D2, D3, D4, D5, D6>>,
       <<D7, D7, D7, D3, D3, D3>>,
       <<D1, D2, D3, D4, D5, D5>>,
       <<D1, D2, D4, D3, D5, D6>>,
       <<D9, D9, D9, D8, D8, D8>>,
       <<D6, D5, D4, D3, D2, D1>>,
       <<D0, D0, D0, D0, D0, D0>>,
       <<D9, D9, D9, D9, D9, D9>>,
       <<D1, D1, D1, D1, D1, D1>>,
       <<D2, D2, D2, D2, D2, D2>>,
       <<D3, D3, D3, D3, D3, D3>>,
       <<D4, D4, D4, D4, D4, D4>>,
       <<D5, D5, D5, D5, D5, D5>>,
       <<D6, D6, D6, D6, D6, D6>>,
       <<D7, D7, D7, D7, D7, D7>>,
       <<D8, D8, D8, D8, D8, D8>> >>

Codes == {CodeWords[i] : i \in 1..NumCodes}

DigitsAt(k) == {w[((k - 1) % 6) + 1] : w \in Codes}

(* the digit buttons pressed in the current state *)
Offered ==
    CASE state = ENTERING_PIN -> DigitsAt(Len(enteredDigits) + 1)
      [] state = SETTING_NEW_PIN -> DigitsAt(Len(newPinBuffer) + 1)
      [] OTHER -> {b \in Button : isDigitButton(b)}

(* every 6-digit sequence the model can type *)
Typed ==
    DigitsAt(1) \X DigitsAt(2) \X DigitsAt(3) \X DigitsAt(4) \X DigitsAt(5)
        \X DigitsAt(6)

(* one call safe.enter(button) *)
enter(button) ==
    LET next == enterOn(this, button)
    IN  /\ locked' = next.locked
        /\ display' = next.display
        /\ currentPin' = next.currentPin
        /\ state' = next.state
        /\ enteredDigits' = next.enteredDigits
        /\ newPinBuffer' = next.newPinBuffer
        /\ pressed' = {button}
        /\ testSafe' = testSafe

(* as callReadDisplay, but the display is blanked once it has been read *)
callReadDisplay_ClearsDisplay ==
    /\ display' = BLANK
    /\ UNCHANGED <<locked, currentPin, state, enteredDigits, newPinBuffer, pressed,
                   testSafe>>

(* one call safe.readDisplay(): returns this.display and assigns nothing *)
callReadDisplay ==
    UNCHANGED <<locked, display, currentPin, state, enteredDigits, newPinBuffer, pressed,
                testSafe>>

(* one call safe.isLocked(): returns this.locked and assigns nothing *)
callIsLocked ==
    UNCHANGED <<locked, display, currentPin, state, enteredDigits, newPinBuffer, pressed,
                testSafe>>

PressDigit == \E b \in Offered : enter(b)

PressLock == enter(LOCK)

PressKey == enter(KEY)

PressPin == enter(PIN)

Next ==
    \/ PressDigit
    \/ PressLock
    \/ PressKey
    \/ PressPin
    \/ callReadDisplay
    \/ callIsLocked

Spec == Init /\ [][Next]_vars

(***************************************************************************)
(* Two objects side by side: the safe of the fields above and testSafe.    *)
(* Each takes any button in any state; the digits pressed during an entry  *)
(* are bounded as above, with the code words taken in the order PairWords  *)
(* (those nearest to the factory PIN first) and the first NumPairCodes of  *)
(* them in use.                                                            *)
(***************************************************************************)
NumPairCodes == 2

PairWords ==
    <<CodeWords[1], CodeWords[3], CodeWords[4], CodeWords[2]>>
        \o SubSeq(CodeWords, 5, Len(CodeWords))

PairCodes == {PairWords[i] : i \in 1..NumPairCodes}

PairDigitsAt(k) == {w[((k - 1) % 6) + 1] : w \in PairCodes}

(* the buttons pressed on the object s in its current state *)
PairOffered(s) ==
    {LOCK, KEY, PIN} \cup
    CASE s.state = ENTERING_PIN -> PairDigitsAt(Len(s.enteredDigits) + 1)
      [] s.state = SETTING_NEW_PIN -> PairDigitsAt(Len(s.newPinBuffer) + 1)
      [] OTHER -> {b \in Button : isDigitButton(b)}

(* as testSafeEnter, but currentPin is one field shared by all objects *)
testSafeEnter_SharedPin(button) ==
    LET next == enterOn([testSafe EXCEPT !.currentPin = currentPin], button)
    IN  /\ testSafe' = next
        /\ currentPin' = next.currentPin
        /\ UNCHANGED <<locked, display, state, enteredDigits, newPinBuffer, pressed>>

(* one call testSafe.enter(button) *)
testSafeEnter(button) ==
    /\ testSafe' = enterOn(testSafe, button)
    /\ UNCHANGED <<locked, display, currentPin, state, enteredDigits, newPinBuffer,
                   pressed>>

SafeEnters == \E b \in PairOffered(this) : enter(b)

TestSafeEnters == \E b \in PairOffered(testSafe) : testSafeEnter(b)

PairNext ==
    \/ SafeEnters
    \/ TestSafeEnters

PairSpec == Init /\ [][PairNext]_vars

(***************************************************************************)
(* Vocabulary of the properties.                                           *)
(***************************************************************************)
(* the decimal character a digit button is labelled with *)
Label(b) == DecimalChar[b + 1]

(* the string a sequence of digit buttons is labelled with *)
Labels(w) == [k \in 1..Len(w) |-> Label(w[k])]

DigitButtons == {b \in Button : b <= D9}

(* the last enter() call pressed a digit button *)
DigitPressed == \E b \in DigitButtons : pressed = {b}

(* C1: in every reachable state readDisplay() returns a string of exactly 6
   characters, also after more than 6 digits are pressed while a new PIN is
   being set. *)
C1_DisplayIsSixChars == Len(readDisplay(this)) = 6

(* C2: isLocked() is a function of the state tag: false exactly in UNLOCKED
   and SETTING_NEW_PIN, true in LOCKED_IDLE, LOCKED_ERROR and ENTERING_PIN. *)
C2_LockedFollowsState ==
    /\ state \in SafeState
    /\ isLocked(this) = (state \notin {UNLOCKED, SETTING_NEW_PIN})

C2_Witness ==
    /\ state = LOCKED_IDLE
    /\ display = CLOSED
    /\ isLocked(this)
    /\ currentPin # DEFAULT_PIN

(* C3: in ENTERING_PIN, a digit press that brings the buffer to 6 digits equal
   to the current PIN moves to UNLOCKED, shows "OPEN  ", unlocks and empties
   the buffer in the same transition. *)
C3_CorrectPinUnlocks ==
    [][\A b \in DigitButtons :
          (/\ state = ENTERING_PIN
           /\ pressed' = {b}
           /\ Len(enteredDigits) = 5
           /\ Append(enteredDigits, Label(b)) = currentPin)
          => (/\ state' = UNLOCKED
              /\ display' = OPEN
              /\ ~locked'
              /\ enteredDigits' = <<>>)]_vars

C3_Witness ==
    /\ \E b \in DigitButtons : pressed = {b} /\ currentPin[6] = Label(b)
    /\ state = UNLOCKED
    /\ display = OPEN
    /\ ~locked
    /\ enteredDigits = <<>>

(* C4: in ENTERING_PIN, a 6th digit that completes a sequence different from
   the current PIN moves to LOCKED_IDLE with a blank display, the safe still
   locked and the buffer emptied. *)
C4_WrongPinStaysLocked ==
    [][\A b \in DigitButtons :
          (/\ state = ENTERING_PIN
           /\ pressed' = {b}
           /\ Len(enteredDigits) = 5
           /\ Append(enteredDigits, Label(b)) # currentPin)
          => (/\ state' = LOCKED_IDLE
              /\ display' = BLANK
              /\ locked'
              /\ enteredDigits' = <<>>)]_vars

C4_Witness ==
    /\ DigitPressed
    /\ state = LOCKED_IDLE
    /\ display = BLANK
    /\ locked
    /\ enteredDigits = <<>>

(* C5: every step in which isLocked() changes from true to false is a digit
   press in ENTERING_PIN whose appended buffer equals the PIN in force. *)
C5_OnlyThePinUnlocks ==
    [][(locked /\ ~locked')
          => (/\ state = ENTERING_PIN
              /\ \E b \in DigitButtons :
                    /\ pressed' = {b}
                    /\ Append(enteredDigits, Label(b)) = currentPin)]_vars

C5_Witness ==
    /\ ~locked
    /\ DigitPressed
    /\ currentPin = Labels(CodeWords[2])

(* C6: from UNLOCKED, for every 6-digit code c: PIN, the digits of c, PIN and
   LOCK, then KEY and the digits of c, unlock the safe; KEY and the digits of
   the previous PIN, when it differs from c, leave it locked. *)
C6_RoundTrip ==
    state = UNLOCKED =>
        LET previous == {old \in Typed : Labels(old) = currentPin}
        IN  \A c \in Typed :
                LET relocked == enterAll(this, <<PIN>> \o c \o <<PIN, LOCK>>)
                    withNew == enterAll(relocked, <<KEY>> \o c)
                IN  /\ isLocked(relocked)
                    /\ ~isLocked(withNew)
                    /\ withNew.state = UNLOCKED
                    /\ readDisplay(withNew) = OPEN
                    /\ \A old \in previous \ {c} :
                          LET withOld == enterAll(relocked, <<KEY>> \o old)
                          IN  isLocked(withOld) /\ withOld.state = LOCKED_IDLE

C6_Witness ==
    /\ state = UNLOCKED
    /\ display = OPEN
    /\ DigitPressed
    /\ currentPin \notin {DEFAULT_PIN, Labels(CodeWords[2])}

(* C7: in SETTING_NEW_PIN, PIN pressed with exactly 6 digits in the buffer
   stores the buffer as the PIN, moves to UNLOCKED, shows "CODE  ", keeps the
   safe unlocked and empties the buffer. *)
C7_PinCommits ==
    [][(state = SETTING_NEW_PIN /\ pressed' = {PIN} /\ Len(newPinBuffer) = 6)
          => (/\ currentPin' = newPinBuffer
              /\ state' = UNLOCKED
              /\ display' = CODE
              /\ ~locked'
              /\ newPinBuffer' = <<>>)]_vars

C7_Witness ==
    /\ pressed = {PIN}
    /\ state = UNLOCKED
    /\ display = CODE
    /\ currentPin = Labels(CodeWords[2])
    /\ newPinBuffer = <<>>

(* C8: in UNLOCKED, LOCK moves to LOCKED_IDLE, shows "CLOSED" and locks,
   whether the display showed "OPEN  " or "CODE  ". *)
C8_LockLocks ==
    [][(state = UNLOCKED /\ display \in {OPEN, CODE} /\ pressed' = {LOCK})
          => (state' = LOCKED_IDLE /\ display' = CLOSED /\ locked')]_vars

C8_Witness ==
    /\ pressed = {LOCK}
    /\ state = LOCKED_IDLE
    /\ display = CLOSED
    /\ locked

(* C9: in LOCKED_IDLE, any digit button moves to LOCKED_ERROR with display
   "ERROR ", leaves the entry buffer and the PIN untouched and the safe
   locked. *)
C9_DigitWithoutKeyIsError ==
    [][\A b \in DigitButtons :
          (state = LOCKED_IDLE /\ pressed' = {b})
          => (/\ state' = LOCKED_ERROR
              /\ display' = ERROR
              /\ enteredDigits' = enteredDigits
              /\ currentPin' = currentPin
              /\ locked')]_vars

C9_Witness ==
    /\ pressed = {D0}
    /\ state = LOCKED_ERROR
    /\ display = ERROR
    /\ locked

(* C10: in LOCKED_ERROR, every button other than KEY keeps LOCKED_ERROR with
   display "ERROR " and the safe locked, and only KEY leaves LOCKED_ERROR. *)
C10_ErrorIsSticky ==
    [][state = LOCKED_ERROR
          => /\ \A b \in Button \ {KEY} :
                   pressed' = {b}
                   => (state' = LOCKED_ERROR /\ display' = ERROR /\ locked')
             /\ state' # LOCKED_ERROR => pressed' = {KEY}]_vars

C10_Witness ==
    /\ state = LOCKED_ERROR
    /\ display = ERROR
    /\ locked
    /\ pressed = {PIN}
    /\ currentPin # DEFAULT_PIN


(* C11: KEY pressed in LOCKED_IDLE or in LOCKED_ERROR moves to ENTERING_PIN
   with an empty entry buffer and a blank display; the safe stays locked. *)
C11_KeyStartsEntry ==
    [][(state \in {LOCKED_IDLE, LOCKED_ERROR} /\ pressed' = {KEY})
          => (/\ state' = ENTERING_PIN
              /\ enteredDigits' = <<>>
              /\ display' = BLANK
              /\ locked')]_vars

C11_Witness ==
    /\ pressed = {KEY}
    /\ state = ENTERING_PIN
    /\ enteredDigits = <<>>
    /\ display = BLANK
    /\ locked

(* C12: in ENTERING_PIN, a digit press that leaves the buffer with 1 to 5
   digits keeps ENTERING_PIN and the safe locked, and the display shows the
   digits entered so far, in order, right-padded with spaces to 6
   characters. *)
C12_PartialEntryShown ==
    [][\A b \in DigitButtons :
          (state = ENTERING_PIN /\ pressed' = {b} /\ Len(enteredDigits) < 5)
          => (/\ state' = ENTERING_PIN
              /\ locked'
              /\ enteredDigits' = Append(enteredDigits, Label(b))
              /\ Len(display') = 6
              /\ \A i \in 1..6 :
                    display'[i] = IF i <= Len(enteredDigits) THEN enteredDigits[i]
                                  ELSE IF i = Len(enteredDigits) + 1 THEN Label(b)
                                  ELSE " ")]_vars

C12_Witness ==
    /\ state = ENTERING_PIN
    /\ locked
    /\ enteredDigits = <<"1", "2", "3", "4", "5">>
    /\ display = <<"1", "2", "3", "4", "5", " ">>

(* the (state, button) pairs the transition table names as no-ops *)
NamedNoOp(s, b) ==
    \/ s.state = LOCKED_IDLE /\ b \in {LOCK, PIN}
    \/ s.state = ENTERING_PIN /\ b \in {LOCK, PIN}
    \/ s.state = UNLOCKED /\ b \in DigitButtons \cup {KEY}
    \/ s.state = SETTING_NEW_PIN /\ b \in {LOCK, KEY}
    \/ s.state = SETTING_NEW_PIN /\ b = PIN /\ Len(s.newPinBuffer) < 6

DigitChars == {DecimalChar[i] : i \in 1..10}

IsDigitString(str) == \A i \in 1..Len(str) : str[i] \in DigitChars

(* C13: enter() is total: in every reachable state, each of the 13 buttons
   has a transition that yields a well-formed object in one of the 5 states,
   and every combination the table names as a no-op changes nothing. *)
C13_EnterIsTotal ==
    \A b \in Button :
        LET after == enterOn(this, b)
        IN  /\ DOMAIN after = DOMAIN this
            /\ after.state \in SafeState
            /\ after.locked \in BOOLEAN
            /\ IsDigitString(after.currentPin)
            /\ IsDigitString(after.enteredDigits)
            /\ IsDigitString(after.newPinBuffer)
            /\ Len(after.display) >= 6
            /\ NamedNoOp(this, b) => after = this

C13_Witness ==
    /\ state = SETTING_NEW_PIN
    /\ pressed = {KEY}
    /\ Len(newPinBuffer) = 3
    /\ ~locked

(* C14, as claimed: each buffer has length in [0,6] and a buffer that reaches
   6 digits is committed or rejected by the same transition, so no reachable
   state holds a 6-digit buffer. *)
C14_NoPendingBuffer ==
    /\ Len(enteredDigits) \in 0..6
    /\ Len(newPinBuffer) \in 0..6
    /\ Len(enteredDigits) # 6
    /\ Len(newPinBuffer) # 6

(* C14, amended: each buffer has length in [0,6]; the entry buffer never
   rests at 6 digits (the 6th digit unlocks or rejects in the same
   transition), while the new-PIN buffer does rest at 6 digits, in
   SETTING_NEW_PIN only, until PIN commits it. *)
C14_BufferLengths ==
    /\ Len(enteredDigits) \in 0..5
    /\ Len(newPinBuffer) \in 0..6
    /\ Len(newPinBuffer) = 6 => state = SETTING_NEW_PIN

C14_Witness ==
    /\ state = SETTING_NEW_PIN
    /\ Len(newPinBuffer) = 6
    /\ Len(display) = 7
    /\ currentPin # DEFAULT_PIN

(* the six fields of the object *)
fields == <<locked, display, currentPin, state, enteredDigits, newPinBuffer>>

(* C15: in LOCKED_IDLE, LOCK and PIN are no-ops: state, display (blank or
   "CLOSED"), lock status, buffers and PIN are unchanged. *)
C15_IdleLockAndPinAreNoOps ==
    [][(state = LOCKED_IDLE /\ (pressed' = {LOCK} \/ pressed' = {PIN}))
          => UNCHANGED fields]_vars

C15_Witness ==
    /\ state = LOCKED_IDLE
    /\ display = BLANK
    /\ pressed = {LOCK}
    /\ locked

(* C16: the PIN changes only by PIN pressed in SETTING_NEW_PIN with a 6-digit
   buffer, and becomes that buffer; while the safe is locked no event starts
   a PIN change or alters the PIN. *)
C16_PinChangesOnlyByCommit ==
    [][/\ currentPin' # currentPin
          => (/\ state = SETTING_NEW_PIN
              /\ pressed' = {PIN}
              /\ Len(newPinBuffer) = 6
              /\ currentPin' = newPinBuffer)
       /\ locked => (currentPin' = currentPin /\ state' # SETTING_NEW_PIN)]_vars

C16_Witness ==
    /\ locked
    /\ pressed = {PIN}
    /\ state = ENTERING_PIN
    /\ Len(enteredDigits) = 2
    /\ currentPin = Labels(CodeWords[2])

(* the digit button labelled with a decimal character *)
ButtonOf(c) == CHOOSE b \in DigitButtons : Label(b) = c

(* the buttons that type a string of decimal characters *)
ButtonsOf(str) == [k \in 1..Len(str) |-> ButtonOf(str[k])]

(* C17: from every reachable locked state (LOCKED_IDLE, LOCKED_ERROR, or
   ENTERING_PIN with any partial buffer), KEY followed by the six digits of
   the current PIN ends in UNLOCKED with display "OPEN  ". *)
C17_CorrectAttemptAlwaysUnlocks ==
    locked =>
        LET after == enterAll(this, <<KEY>> \o ButtonsOf(currentPin))
        IN  /\ state \in {LOCKED_IDLE, LOCKED_ERROR, ENTERING_PIN}
            /\ after.state = UNLOCKED
            /\ readDisplay(after) = OPEN
            /\ ~isLocked(after)

C17_Witness ==
    /\ locked
    /\ state = ENTERING_PIN
    /\ Len(enteredDigits) = 4
    /\ currentPin \notin {DEFAULT_PIN, Labels(CodeWords[2])}

(* C18: readDisplay() and isLocked() are pure reads: a call of either, in
   any state, changes none of the six fields. *)
C18_ReadsChangeNothing ==
    [][(callReadDisplay \/ callIsLocked) => UNCHANGED fields]_vars

C18_Witness ==
    /\ ENABLED callReadDisplay
    /\ ENABLED callIsLocked
    /\ state = SETTING_NEW_PIN
    /\ Len(readDisplay(this)) = 7
    /\ ~isLocked(this)

(* C19: a freshly created controller (no enter() call yet) is in LOCKED_IDLE
   with a blank display, locked, both buffers empty and the PIN 123456. *)
C19_FreshSafe ==
    pressed = {} =>
        /\ state = LOCKED_IDLE
        /\ readDisplay(this) = BLANK
        /\ isLocked(this)
        /\ enteredDigits = <<>>
        /\ newPinBuffer = <<>>
        /\ currentPin = <<"1", "2", "3", "4", "5", "6">>

C19_Witness ==
    /\ pressed = {}
    /\ state = LOCKED_IDLE
    /\ currentPin = DEFAULT_PIN

(* C20: in every reachable state the PIN is a sequence of exactly 6 decimal
   digits, also after more than 6 digits were pressed while setting it. *)
C20_PinIsSixDigits ==
    /\ Len(currentPin) = 6
    /\ IsDigitString(currentPin)

C20_Witness ==
    /\ pressed = {PIN}
    /\ state = UNLOCKED
    /\ display = CODE
    /\ currentPin \notin {DEFAULT_PIN, Labels(CodeWords[2])}

(* pin with the digit at position k replaced by the next digit *)
Bump(pin, k) == [pin EXCEPT ![k] = Label((ButtonOf(pin[k]) + 1) % 10)]

(* PINs other than pin: one differing in the first digit only, one in the
   last digit only, one in every digit *)
OtherPins(pin) ==
    {Bump(pin, 1), Bump(pin, Len(pin)), [k \in 1..Len(pin) |-> Bump(pin, k)[k]]}

(* the press of b completes a 6-digit entry *)
Completes(b) ==
    state = ENTERING_PIN /\ Len(enteredDigits) = 5 /\ b \in DigitButtons

(* C21: a second controller that differs from this one only in its PIN and
   receives the same button shows the same state tag, display, lock status
   and buffers afterwards, for every button except the digit that completes
   a 6-digit entry: the PIN has no influence before that transition. *)
C21_PinInvisibleBeforeCompletion ==
    LET others == OtherPins(currentPin)
    IN  \A b \in Button :
            ~Completes(b) =>
                LET mine == enterOn(this, b)
                IN  \A other \in others :
                        LET theirs == enterOn([this EXCEPT !.currentPin = other], b)
                        IN  /\ theirs.state = mine.state
                            /\ readDisplay(theirs) = readDisplay(mine)
                            /\ isLocked(theirs) = isLocked(mine)
                            /\ theirs.enteredDigits = mine.enteredDigits
                            /\ theirs.newPinBuffer = mine.newPinBuffer
                            /\ (theirs.currentPin = mine.currentPin
                                \/ (/\ theirs.currentPin = other
                                    /\ mine.currentPin = currentPin))

C21_Witness ==
    /\ state = ENTERING_PIN
    /\ Len(enteredDigits) = 5
    /\ enteredDigits[1] # currentPin[1]
    /\ display = padEnd(enteredDigits, 6, " ")
    /\ locked

(* C22: in every reachable state the entry buffer and the new-PIN buffer are
   never both non-empty. *)
C22_OneLiveBuffer == enteredDigits = <<>> \/ newPinBuffer = <<>>

C22_Witness ==
    /\ state = SETTING_NEW_PIN
    /\ Len(newPinBuffer) = 2
    /\ enteredDigits = <<>>
    /\ DigitPressed

(* C23: in SETTING_NEW_PIN with 6 digits in the buffer, a further digit is
   dropped: the buffer still holds the first six digits, the state stays
   SETTING_NEW_PIN, and a following PIN commits exactly those six digits. *)
C23_BufferClampedAtSix ==
    (state = SETTING_NEW_PIN /\ Len(newPinBuffer) = 6) =>
        \A b \in DigitButtons :
            LET after == enterOn(this, b)
                committed == enterOn(after, PIN)
            IN  /\ after.newPinBuffer = newPinBuffer
                /\ after.state = SETTING_NEW_PIN
                /\ after.currentPin = currentPin
                /\ ~isLocked(after)
                /\ committed.currentPin = newPinBuffer
                /\ committed.state = UNLOCKED

C23_Witness ==
    /\ state = SETTING_NEW_PIN
    /\ Len(newPinBuffer) = 6
    /\ Len(display) = 7
    /\ SubSeq(display, 1, 6) = newPinBuffer
    /\ pressed = {D7}

(* C24: in ENTERING_PIN the display is the entry buffer right-padded with
   spaces to 6 characters, and in SETTING_NEW_PIN it is the new-PIN buffer
   right-padded with spaces to 6 characters, also after more than 6 digits
   have been pressed. *)
C24_DisplayShowsBuffer ==
    /\ state = ENTERING_PIN
          => display = enteredDigits \o [i \in 1..(6 - Len(enteredDigits)) |-> " "]
    /\ state = SETTING_NEW_PIN
          => display = newPinBuffer \o [i \in 1..(6 - Len(newPinBuffer)) |-> " "]

(* C25: in SETTING_NEW_PIN, PIN pressed with fewer than 6 digits in the
   buffer (also with none) is rejected: state, display, buffers, PIN and lock
   status are unchanged. *)
C25_EarlyPinRejected ==
    (state = SETTING_NEW_PIN /\ Len(newPinBuffer) < 6) => enterOn(this, PIN) = this

C25_Witness ==
    /\ state = SETTING_NEW_PIN
    /\ pressed = {PIN}
    /\ Len(newPinBuffer) = 4
    /\ display = padEnd(newPinBuffer, 6, " ")
    /\ ~locked

(* C26: in SETTING_NEW_PIN, LOCK and KEY are no-ops: the state stays
   SETTING_NEW_PIN, the safe unlocked, display, buffers and PIN unchanged. *)
C26_SettingLockAndKeyAreNoOps ==
    state = SETTING_NEW_PIN =>
        /\ ~isLocked(this)
        /\ enterOn(this, LOCK) = this
        /\ enterOn(this, KEY) = this

C26_Witness ==
    /\ state = SETTING_NEW_PIN
    /\ pressed = {LOCK}
    /\ Len(newPinBuffer) = 6
    /\ ~locked

(* C27: in ENTERING_PIN, KEY with any partial buffer empties the buffer,
   blanks the display and stays in ENTERING_PIN, and the next six digits are
   judged as a fresh entry: those of the PIN unlock. *)
C27_KeyRestartsEntry ==
    state = ENTERING_PIN =>
        LET after == enterOn(this, KEY)
            retry == enterAll(after, ButtonsOf(currentPin))
        IN  /\ Len(enteredDigits) \in 0..5
            /\ after.state = ENTERING_PIN
            /\ after.enteredDigits = <<>>
            /\ readDisplay(after) = BLANK
            /\ isLocked(after)
            /\ after.currentPin = currentPin
            /\ retry.state = UNLOCKED

C27_Witness ==
    /\ state = ENTERING_PIN
    /\ pressed = {KEY}
    /\ enteredDigits = <<>>
    /\ display = BLANK
    /\ currentPin # DEFAULT_PIN

(* C28: in ENTERING_PIN, LOCK and PIN are no-ops: state, display, buffers,
   PIN and lock status are unchanged, so the entry continues as if the press
   had not happened. *)
C28_EnteringLockAndPinAreNoOps ==
    state = ENTERING_PIN =>
        /\ enterOn(this, LOCK) = this
        /\ enterOn(this, PIN) = this

C28_Witness ==
    /\ state = ENTERING_PIN
    /\ pressed = {LOCK}
    /\ Len(enteredDigits) = 3
    /\ locked

(* C29: in UNLOCKED, PIN moves to SETTING_NEW_PIN with an empty new-PIN
   buffer and a blank display; the safe stays unlocked and the PIN is
   unchanged. *)
C29_PinStartsChange ==
    [][(state = UNLOCKED /\ pressed' = {PIN})
          => (/\ state' = SETTING_NEW_PIN
              /\ newPinBuffer' = <<>>
              /\ display' = BLANK
              /\ ~locked'
              /\ currentPin' = currentPin)]_vars

C29_Witness ==
    /\ state = SETTING_NEW_PIN
    /\ pressed = {PIN}
    /\ newPinBuffer = <<>>
    /\ display = BLANK
    /\ ~locked

(* C30: in UNLOCKED, every digit button and KEY are no-ops: state, display
   ("OPEN  " or "CODE  "), lock status, buffers and PIN are unchanged. *)
C30_UnlockedDigitAndKeyAreNoOps ==
    state = UNLOCKED =>
        /\ display \in {OPEN, CODE}
        /\ \A b \in DigitButtons \cup {KEY} : enterOn(this, b) = this

C30_Witness ==
    /\ state = UNLOCKED
    /\ pressed = {KEY}
    /\ display = CODE
    /\ ~locked

(* C31: the state tag changes only along the eight arrows of the documented
   diagram, each on its own button and condition; every other pair of state
   and button leaves the tag as it was. *)
C31_OnlyDiagramTransitions ==
    [][state' # state =>
          \/ state = LOCKED_IDLE /\ pressed' = {KEY} /\ state' = ENTERING_PIN
          \/ /\ state = LOCKED_IDLE
             /\ \E b \in DigitButtons : pressed' = {b}
             /\ state' = LOCKED_ERROR
          \/ state = LOCKED_ERROR /\ pressed' = {KEY} /\ state' = ENTERING_PIN
          \/ /\ state = ENTERING_PIN
             /\ Len(enteredDigits) = 5
             /\ \E b \in DigitButtons :
                   /\ pressed' = {b}
                   /\ enteredDigits \o <<Label(b)>> = currentPin
             /\ state' = UNLOCKED
          \/ /\ state = ENTERING_PIN
             /\ Len(enteredDigits) = 5
             /\ \E b \in DigitButtons :
                   /\ pressed' = {b}
                   /\ enteredDigits \o <<Label(b)>> # currentPin
             /\ state' = LOCKED_IDLE
          \/ state = UNLOCKED /\ pressed' = {LOCK} /\ state' = LOCKED_IDLE
          \/ state = UNLOCKED /\ pressed' = {PIN} /\ state' = SETTING_NEW_PIN
          \/ /\ state = SETTING_NEW_PIN
             /\ pressed' = {PIN}
             /\ Len(newPinBuffer) = 6
             /\ state' = UNLOCKED]_vars

C31_Witness ==
    /\ state = LOCKED_IDLE
    /\ DigitPressed
    /\ display = BLANK
    /\ currentPin # DEFAULT_PIN
    /\ locked

(* C32: for every k in 0..9, pressing Dk while a PIN is entered or set
   appends the decimal character k, the label of the button, to the live
   buffer: it is the character shown on the display, the character compared
   with the PIN on the 6th digit, and the character stored in the new-PIN
   buffer while that buffer has room. *)
C32_DigitAppendsItsLabel ==
    \A b \in DigitButtons :
        LET after == enterOn(this, b)
            entered == enteredDigits \o <<Label(b)>>
            chosen == newPinBuffer \o <<Label(b)>>
        IN  /\ (state = ENTERING_PIN /\ Len(enteredDigits) < 5) =>
                  /\ after.enteredDigits = entered
                  /\ readDisplay(after) = padEnd(entered, 6, " ")
            /\ (state = ENTERING_PIN /\ Len(enteredDigits) = 5) =>
                  (after.state = UNLOCKED <=> entered = currentPin)
            /\ state = SETTING_NEW_PIN =>
                  /\ after.newPinBuffer = substring(chosen, 6)
                  /\ readDisplay(after) = padEnd(chosen, 6, " ")

C32_Witness ==
    /\ state = SETTING_NEW_PIN
    /\ pressed = {D7}
    /\ newPinBuffer = <<"7", "7">>
    /\ display = <<"7", "7", " ", " ", " ", " ">>

(* C33: two objects are independent: a call of enter() on one leaves the
   state tag, display, lock flag, buffers and PIN of the other as they were,
   whatever calls each has received before. *)
C33_InstancesAreIndependent ==
    [][/\ testSafe' # testSafe => fields' = fields
       /\ fields' # fields => testSafe' = testSafe]_vars

C33_Witness ==
    /\ state = UNLOCKED
    /\ display = CODE
    /\ currentPin = Labels(CodeWords[3])
    /\ testSafe.state = ENTERING_PIN
    /\ testSafe.currentPin = DEFAULT_PIN
    /\ testSafe.enteredDigits = <<"1", "2", "3">>

(* C34: enter() is deterministic: what a call does depends on the six
   fields and the button only.  Two states of the object with equal state
   tag, display, lock flag, buffers and PIN, reached by different calls,
   answer every button with equal fields, and so with equal display and
   equal lock status, which readDisplay() and isLocked() read from the
   fields.  The states compared are those before and after a press that
   changed none of the fields; every state has two buttons with such a
   press, so any two reachable states with equal fields are linked by them. *)
C34_EnterIsDeterministic ==
    [][(pressed' # pressed /\ this' = this) =>
          \A b \in Button : enterOn(this, b)' = enterOn(this, b)]_vars

C34_Witness ==
    /\ state = ENTERING_PIN
    /\ pressed = {PIN}
    /\ enteredDigits = <<"7", "7">>
    /\ enterOn(this, D7).enteredDigits = <<"7", "7", "7">>
    /\ currentPin = DEFAULT_PIN

(* C35: in every reachable state the display reads "ERROR " if and only if
   the state tag is LOCKED_ERROR. *)
C35_ErrorShownExactlyInError ==
    readDisplay(this) = ERROR <=> state = LOCKED_ERROR

C35_Witness ==
    /\ state = LOCKED_ERROR
    /\ pressed = {PIN}
    /\ display = ERROR
    /\ currentPin # DEFAULT_PIN

(* C36: the status messages agree with the lock: a display of "OPEN  " or
   "CODE  " implies state UNLOCKED and isLocked() false; a display of
   "CLOSED" implies state LOCKED_IDLE and isLocked() true. *)
C36_StatusMessagesAgreeWithLock ==
    /\ readDisplay(this) \in {OPEN, CODE} => (state = UNLOCKED /\ ~isLocked(this))
    /\ readDisplay(this) = CLOSED => (state = LOCKED_IDLE /\ isLocked(this))

C36_Witness ==
    /\ display = CLOSED
    /\ state = LOCKED_IDLE
    /\ pressed = {LOCK}
    /\ currentPin # DEFAULT_PIN
    /\ locked

(* C37: isLocked() turns from false to true only by LOCK pressed in
   UNLOCKED; from SETTING_NEW_PIN no button locks the safe, and the only way
   out of SETTING_NEW_PIN is PIN with six digits in the buffer. *)
C37_OnlyLockLocks ==
    [][/\ (~locked /\ locked') =>
              (state = UNLOCKED /\ pressed' = {LOCK} /\ state' = LOCKED_IDLE)
       /\ state = SETTING_NEW_PIN =>
              /\ ~locked'
              /\ state' # SETTING_NEW_PIN =>
                    /\ pressed' = {PIN}
                    /\ Len(newPinBuffer) = 6
                    /\ currentPin' = newPinBuffer
                    /\ state' = UNLOCKED]_vars

C37_Witness ==
    /\ locked
    /\ pressed = {LOCK}
    /\ display = CLOSED
    /\ currentPin = Labels(CodeWords[2])

(* a sequence of buttons that takes the object s to UNLOCKED: KEY and the
   PIN when it is locked, the missing digits and PIN when a new PIN is being
   set *)
WayToUnlocked(s) ==
    CASE s.state = UNLOCKED -> <<>>
      [] s.state = SETTING_NEW_PIN ->
            [k \in 1..(6 - Len(s.newPinBuffer)) |-> D0] \o <<PIN>>
      [] OTHER -> <<KEY>> \o ButtonsOf(s.currentPin)

(* a sequence of buttons that takes the object s to LOCKED_IDLE *)
WayToLockedIdle(s) == WayToUnlocked(s) \o <<LOCK>>

(* C38: no reachable state is a trap: from every reachable state a finite
   sequence of buttons reaches UNLOCKED and a finite sequence of buttons
   reaches LOCKED_IDLE. *)
C38_NoTrap ==
    /\ enterAll(this, WayToUnlocked(this)).state = UNLOCKED
    /\ enterAll(this, WayToLockedIdle(this)).state = LOCKED_IDLE

C38_Witness ==
    /\ state = LOCKED_ERROR
    /\ pressed = {LOCK}
    /\ display = ERROR
    /\ currentPin = Labels(CodeWords[2])
    /\ enterAll(this, WayToUnlocked(this)).display = OPEN

(* C39: between calls, enteredDigits is non-empty only in ENTERING_PIN,
   where it holds at most 5 digits, and newPinBuffer is non-empty only in
   SETTING_NEW_PIN; both are empty in LOCKED_IDLE, LOCKED_ERROR and
   UNLOCKED. *)
C39_BuffersLiveOnlyInTheirState ==
    /\ enteredDigits # <<>> => (state = ENTERING_PIN /\ Len(enteredDigits) <= 5)
    /\ newPinBuffer # <<>> => state = SETTING_NEW_PIN
    /\ state \in {LOCKED_IDLE, LOCKED_ERROR, UNLOCKED} =>
          (enteredDigits = <<>> /\ newPinBuffer = <<>>)

C39_Witness ==
    /\ state = UNLOCKED
    /\ pressed = {D6}
    /\ display = OPEN
    /\ enteredDigits = <<>>
    /\ newPinBuffer = <<>>
    /\ currentPin = DEFAULT_PIN

====
